---- MODULE Spec2Model ----
(***************************************************************************)
(* News aggregation pipeline of the stock dashboard (news_engine.py):      *)
(* the source adapters, get_all_news_cached, fetch_market_headlines and    *)
(* the two st.cache_data memoizers, as a state machine.                    *)
(*                                                                         *)
(* A title is a sequence of one-character strings.  A published value is   *)
(* a record [t, aware]: t is the reading on a common time axis (seconds,   *)
(* origin 2024-01-01T00:00:00), aware tells a timezone-aware datetime      *)
(* from a naive one.                                                       *)
(***************************************************************************)
EXTENDS Integers, Sequences, FiniteSets, TLC

VARIABLES
    keys,          \* FINNHUB_API_KEY / NEWSAPI_KEY / ALPHAVANTAGE_KEY are set
    now,           \* the clock (datetime.now(), the cache timer)
    pagesize,      \* how many items each provider serves per page right now
    budget,        \* provider misbehaviours the environment may still produce
    callsLeft,     \* calls of the cached entry points still to be made
    cache,         \* st.cache_data(ttl=1800) store of get_all_news_cached
    hcache,        \* st.cache_data(ttl=900) store of get_market_headlines_cached
    computed,      \* per ticker list: the last value a computing call returned
    pc,            \* position of the running call
    tickers,       \* argument of the running / last get_all_news_cached call
    ti,            \* index of the ticker being processed
    company_name,  \* company_name of the current ticker
    all_news,      \* all_news / all_headlines of the running call
    unique_news,   \* unique_news / unique_headlines of the running call
    result,        \* what the last call gave back to its caller
    netlog         \* provider requests made by the running / last call

vars == <<keys, now, pagesize, budget, callsLeft, cache, hcache, computed, pc,
          tickers, ti, company_name, all_news, unique_news, result, netlog>>

----------------------------------------------------------------------------
(* Bounds of the model *)

MaxDeviations == 1      \* provider misbehaviours per behaviour
PipeCalls == 1          \* calls per behaviour in Spec
MaxCalls == 2           \* calls per behaviour in SpecCache
SmallPage == 2          \* a quiet provider page
LargePage == 6          \* a full provider page
StartTime == 5000       \* clock at process start
TickStep == 900         \* seconds the clock advances in one step
MaxTime == 7700         \* the clock stops here

(* Program constants *)

TTL_NEWS == 1800
TTL_HEADLINES == 900
NEWS_CAP == 50
HEADLINES_CAP == 30
KEY_LEN == 60
MIN_TITLE == 5
MIN_TITLE_ZH == 2
MIN_DEDUP == 2
YAHOO_CAP == 15
FINNHUB_CAP == 10
NEWSAPI_CAP == 15
AV_CAP == 10
GOOGLE_CAP == 10
SINA_CAP == 5
SINA_LINKS == 20
WSCN_CAP == 10
ZHYAHOO_CAP == 10
HL_CAP == 8
SUMMARY_CAP == 200
AV_DEFAULT_TIME == 0

----------------------------------------------------------------------------
(* Strings *)

UpperChars == <<"A","B","C","D","E","F","G","H","I","J","K","L","M",
                "N","O","P","Q","R","S","T","U","V","W","X","Y","Z">>
LowerChars == <<"a","b","c","d","e","f","g","h","i","j","k","l","m",
                "n","o","p","q","r","s","t","u","v","w","x","y","z">>
DigitChars == <<"0","1","2","3","4","5","6","7","8","9">>

\* a sequence given as a function on 1..n, as a tuple
List(f) == SubSeq(f, 1, Len(f))

LowerOf == [c \in {UpperChars[i] : i \in 1..26} |->
               LowerChars[CHOOSE i \in 1..26 : UpperChars[i] = c]]
UpperOf == [c \in {LowerChars[i] : i \in 1..26} |->
               UpperChars[CHOOSE i \in 1..26 : LowerChars[i] = c]]

\* str.lower() on one character
LowerChar(c) == IF c \in DOMAIN LowerOf THEN LowerOf[c] ELSE c

\* str.upper() on one character
UpperChar(c) == IF c \in DOMAIN UpperOf THEN UpperOf[c] ELSE c

\* str.lower()
Lower(s) == List([i \in 1..Len(s) |-> LowerChar(s[i])])

Upper(s) == List([i \in 1..Len(s) |-> UpperChar(s[i])])

IsSpace(c) == c \in {" ", "\t", "\n"}

\* str.strip()
Strip(s) ==
    LET idx == {i \in 1..Len(s) : ~IsSpace(s[i])}
    IN IF idx = {} THEN <<>>
       ELSE LET lo == CHOOSE i \in idx : \A j \in idx : i <= j
                hi == CHOOSE i \in idx : \A j \in idx : i >= j
            IN SubSeq(s, lo, hi)

\* s[:n]
Prefix(s, n) == IF Len(s) <= n THEN s ELSE SubSeq(s, 1, n)

Rep(c, n) == List([i \in 1..n |-> c])

Digit2(n) == <<DigitChars[((n \div 10) % 10) + 1], DigitChars[(n % 10) + 1]>>

----------------------------------------------------------------------------
(* Dedup keys *)

\* title = item["title"].lower().strip()
TitleKeyStripped(title) == Prefix(Strip(Lower(title)), KEY_LEN)

\* title.lower().strip() without the call of strip()
TitleKeyRaw(title) == Prefix(Lower(title), KEY_LEN)

\* get_all_news_cached: title_key = title[:60] of the lowercased, stripped title
NewsKey(title) == TitleKeyStripped(title)

\* the length test on the title as fetched, before strip()
NewsKeyValidRaw(title) == Len(title) > MIN_DEDUP

\* get_all_news_cached: len(title) > 2 on the lowercased, stripped title
NewsKeyValid(title) == Len(Strip(Lower(title))) > MIN_DEDUP

\* fetch_market_headlines: title_key = item["title"].lower()[:60]
HeadlineKey(title) == Prefix(Lower(title), KEY_LEN)

\* fetch_market_headlines: len(item["title"]) > 5
HeadlineKeyValid(title) == Len(title) > MIN_TITLE

----------------------------------------------------------------------------
(* Tickers *)

AAPL == [base |-> "AAPL", suffix |-> ""]
HK0700 == [base |-> "0700", suffix |-> ".HK"]
SS600519 == [base |-> "600519", suffix |-> ".SS"]
SZ000001 == [base |-> "000001", suffix |-> ".SZ"]

\* the ticker lists callers pass
TickerLists == {<<AAPL>>, <<HK0700>>, <<SS600519>>, <<SZ000001>>,
                <<AAPL, HK0700>>, <<HK0700, AAPL>>, <<HK0700, SS600519>>}

\* ".HK" in ticker
IsHK(ticker) == ticker.suffix = ".HK"

\* a gate that knows the Hong Kong marker only
IsGreaterChinaHKOnly(ticker) == IsHK(ticker)

\* ".HK" in ticker or any(x in ticker for x in [".SS", ".SZ"])
IsGreaterChina(ticker) == IsHK(ticker) \/ ticker.suffix \in {".SS", ".SZ"}

\* one character standing for the ticker in generated titles
TickerChar(ticker) ==
    IF ticker = AAPL THEN "A" ELSE IF ticker = HK0700 THEN "H"
    ELSE IF ticker = SS600519 THEN "S" ELSE "Z"

----------------------------------------------------------------------------
(* Provider payloads: what the upstream services answer *)

Absent == <<"<absent>">>

UNTITLED == <<"U","n","t","i","t","l","e","d"," ","A","r","t","i","c","l","e">>

\* CJK keyword of the Sina relevance filter, as one character
ZH_GU == "{gu}"

NoTs == [kind |-> "none", v |-> 0, tz |-> FALSE]

Age(n) == ((n * 3) % 4) * 60

RawItem(title, ts) ==
    [title |-> title, headline |-> Absent, summary |-> <<>>, ts |-> ts,
     linked |-> TRUE, bad |-> FALSE]

StoryTitle(tag, c, n) ==
    <<tag, c>> \o Digit2(n) \o <<" ", "N", "e", "w", "s", ZH_GU>>

\* the n-th story a provider serves on subject c (a ticker, a market)
Story(tag, c, n, tz) ==
    RawItem(StoryTitle(tag, c, n),
            [kind |-> "ok", v |-> now - Age(n), tz |-> tz])

\* a regular page of a provider
Page(tag, c, tz) == List([n \in 1..pagesize |-> Story(tag, c, n, tz)])

LongPadded(c) == <<" ", " ">> \o Rep("x", KEY_LEN - 2) \o <<c>>
LongTitle(c) == Rep("X", KEY_LEN) \o <<c>>
Blank6 == Rep(" ", MIN_TITLE + 1)

LongSummary == Rep("s", SUMMARY_CAP + 1)

\* a page of unusual items: a story Yahoo also carries, in capitals; titles
\* longer than the dedup key with and without leading blanks, one with a
\* summary longer than the summary cap; a blank title; a story Google News
\* also carries, in capitals; short and missing titles; a missing timestamp
OddPage(c, tz) ==
    LET ts(a) == [kind |-> "ok", v |-> now - a, tz |-> tz]
    IN << RawItem(Upper(StoryTitle("y", c, 1)), ts(30)),
          RawItem(LongPadded("a"), ts(240)),
          RawItem(LongPadded("b"), ts(10)),
          [RawItem(LongTitle("a"), ts(20)) EXCEPT !.summary = LongSummary],
          RawItem(LongTitle("b"), ts(0)),
          RawItem(Blank6, ts(0)),
          RawItem(Upper(StoryTitle("g", c, 1)), ts(50)),
          RawItem(<<"a", "b", "c">>, ts(0)),
          RawItem(<<>>, NoTs),
          RawItem(<<" ", "o", "d", "d", " ", "o", "n", "e">>, NoTs) >>

\* a page with fields missing or unusable: between two regular stories an
\* item whose timestamp cannot be converted, then an item without title,
\* headline and summary
SparsePage(tag, c, tz) ==
    << Story(tag, c, 1, tz),
       RawItem(StoryTitle(tag, c, 99), [kind |-> "bad", v |-> 0, tz |-> tz]),
       Story(tag, c, 2, tz),
       [RawItem(<<>>, [kind |-> "ok", v |-> now - 70, tz |-> tz])
           EXCEPT !.summary = Absent] >>

Deviations == {"raise", "empty", "odd", "sparse"}

\* the answers a provider can give to one adapter call
Responses(tag, c, tz) ==
    {[status |-> "ok", items |-> Page(tag, c, tz)]}
    \cup (IF budget = 0 THEN {} ELSE
          {[status |-> "raise", items |-> <<>>],
           [status |-> "ok", items |-> <<>>],
           [status |-> "ok", items |-> OddPage(c, tz)],
           [status |-> "ok", items |-> SparsePage(tag, c, tz)]})

IsRegular(tag, c, tz, resp) ==
    resp = [status |-> "ok", items |-> Page(tag, c, tz)]

----------------------------------------------------------------------------
(* Articles *)

Naive(t) == [t |-> t, aware |-> FALSE]
Aware(t) == [t |-> t, aware |-> TRUE]

Article(title, source, published, summary, origin) ==
    [title |-> title, source |-> source, published |-> published,
     summary |-> summary, origin |-> origin, tk |-> ti]

\* item.get("summary", "")
SummaryOf(item) == IF item.summary = Absent THEN <<>> ELSE item.summary

Outcome(raised, requests, arts) ==
    [raised |-> raised, requests |-> requests, arts |-> arts]

Failed(requests) == Outcome(TRUE, requests, <<>>)

\* the loop "for item in page: if keep(item): result.append(make(item))"
\* inside one try/except, given per item of the page whether handling it
\* raises, whether it is kept and the article made of it: one item that
\* raises loses the whole result
Collect(raises, keep, made) ==
    IF \E i \in 1..Len(raises) : raises[i]
    THEN Failed(1)
    ELSE LET kept == SelectSeq(List([i \in 1..Len(made) |-> <<keep[i], made[i]>>]),
                               LAMBDA p : p[1])
         IN Outcome(FALSE, 1, List([i \in 1..Len(kept) |-> kept[i][2]]))

----------------------------------------------------------------------------
(* Source adapters: a provider answer to the adapter's return value *)

\* a build that holds every provider for configured
HasKeyAlways(k) == TRUE

\* truthiness of the module-level FINNHUB_API_KEY, NEWSAPI_KEY, ALPHAVANTAGE_KEY
HasKey(k) == keys[k]

NO_TITLE == <<"N","o"," ","t","i","t","l","e">>

\* a title extraction without alternative fields
YahooTitleOnly(item) == item.title

\* fetch_yahoo_news: the title, with the fallback fields
YahooTitle(item) ==
    IF item.title # <<>> /\ item.title # NO_TITLE THEN item.title
    ELSE IF item.headline # Absent THEN item.headline
    ELSE IF item.summary # Absent THEN item.summary
    ELSE UNTITLED

\* fetch_yahoo_news: providerPublishTime, datetime.now() when missing or unusable
YahooPublished(item) ==
    IF item.ts.kind = "ok" /\ item.ts.v > 0 THEN Naive(item.ts.v) ELSE Naive(now)

fetch_yahoo_news(ticker, resp) ==
    IF resp.status = "raise" THEN Failed(1)
    ELSE LET page == Prefix(resp.items, YAHOO_CAP)
             n == Len(page)
         IN Collect(List([i \in 1..n |-> page[i].bad]),
                    List([i \in 1..n |-> Len(YahooTitle(page[i])) > MIN_TITLE]),
                    List([i \in 1..n |->
                        Article(YahooTitle(page[i]), "Yahoo Finance",
                                YahooPublished(page[i]),
                                Prefix(SummaryOf(page[i]), SUMMARY_CAP), "yahoo")]))

\* datetime.fromtimestamp(x) if x else datetime.now(), outside any inner try
EpochPublished(item) ==
    IF item.ts.kind = "none" \/ item.ts.v = 0 THEN Naive(now) ELSE Naive(item.ts.v)

\* fetch_finnhub_news: one request per search ticker, all inside one try
fetch_finnhub_news(ticker, resp) ==
    LET nreq == IF IsHK(ticker) THEN 2 ELSE 1
        page == Prefix(resp.items, FINNHUB_CAP)
        n == Len(page)
        one == Collect(List([i \in 1..n |-> page[i].bad \/ page[i].ts.kind = "bad"]),
                       List([i \in 1..n |-> Len(page[i].title) > MIN_TITLE]),
                       List([i \in 1..n |->
                           Article(page[i].title, "Finnhub", EpochPublished(page[i]),
                                   SummaryOf(page[i]), "finnhub")]))
    IN IF ~HasKey("finnhub") THEN Outcome(FALSE, 0, <<>>)
       ELSE IF resp.status = "raise" THEN Failed(1)
       ELSE IF one.raised THEN Failed(1)
       ELSE IF nreq = 2 THEN Outcome(FALSE, 2, one.arts \o one.arts)
       ELSE Outcome(FALSE, 1, one.arts)

\* fetch_newsapi_news: datetime.fromisoformat(publishedAt with Z as +00:00)
NewsApiPublished(item) ==
    IF item.ts.kind = "none" THEN Naive(now)
    ELSE IF item.ts.tz THEN Aware(item.ts.v) ELSE Naive(item.ts.v)

fetch_newsapi_news(ticker, resp) ==
    IF ~HasKey("newsapi") THEN Outcome(FALSE, 0, <<>>)
    ELSE IF resp.status = "raise" THEN Failed(1)
    ELSE LET page == Prefix(resp.items, NEWSAPI_CAP)
             n == Len(page)
         IN Collect(List([i \in 1..n |-> page[i].bad \/ page[i].ts.kind = "bad"]),
                    List([i \in 1..n |-> Len(page[i].title) > MIN_TITLE]),
                    List([i \in 1..n |->
                        Article(page[i].title, "NewsAPI", NewsApiPublished(page[i]),
                                Prefix(SummaryOf(page[i]), SUMMARY_CAP), "newsapi")]))

\* fetch_alphavantage_news: strptime of time_published, default "20240101T000000"
AlphaVantagePublished(item) ==
    IF item.ts.kind = "none" THEN Naive(AV_DEFAULT_TIME)
    ELSE IF item.ts.kind = "bad" THEN Naive(now)
    ELSE Naive(item.ts.v)

fetch_alphavantage_news(ticker, resp) ==
    IF ~HasKey("alphavantage") THEN Outcome(FALSE, 0, <<>>)
    ELSE IF resp.status = "raise" THEN Failed(1)
    ELSE LET page == Prefix(resp.items, AV_CAP)
             n == Len(page)
         IN Collect(List([i \in 1..n |-> page[i].bad]),
                    List([i \in 1..n |-> Len(page[i].title) > MIN_TITLE]),
                    List([i \in 1..n |->
                        Article(page[i].title, "Alpha Vantage",
                                AlphaVantagePublished(page[i]),
                                Prefix(SummaryOf(page[i]), SUMMARY_CAP),
                                "alphavantage")]))

\* the RSS adapters: strptime of pubDate, datetime.now() when it fails
RssPublished(item) ==
    IF item.ts.kind = "ok" THEN Naive(item.ts.v) ELSE Naive(now)

fetch_google_news_rss(ticker, resp) ==
    IF resp.status = "raise" THEN Failed(1)
    ELSE LET page == Prefix(resp.items, GOOGLE_CAP)
             n == Len(page)
         IN Collect(List([i \in 1..n |-> page[i].bad]),
                    List([i \in 1..n |-> Len(page[i].title) > MIN_TITLE]),
                    List([i \in 1..n |->
                        Article(page[i].title, "Google News", RssPublished(page[i]),
                                <<>>, "google")]))

\* fetch_google_news_chinese admits titles longer than 2 characters
fetch_google_news_chinese(ticker, resp) ==
    IF resp.status = "raise" THEN Failed(1)
    ELSE LET page == Prefix(resp.items, GOOGLE_CAP)
             n == Len(page)
         IN Collect(List([i \in 1..n |-> page[i].bad]),
                    List([i \in 1..n |-> Len(page[i].title) > MIN_TITLE_ZH]),
                    List([i \in 1..n |->
                        Article(page[i].title, "Google News (zh)",
                                RssPublished(page[i]), <<>>, "google_zh")]))

\* x in title, for a one-character x
Contains(title, c) == \E i \in 1..Len(title) : title[i] = c

\* fetch_sina_finance_rss: the first 20 links, the relevant ones, at most 5
fetch_sina_finance_rss(ticker, resp) ==
    IF resp.status = "raise" THEN Failed(1)
    ELSE LET page == Prefix(resp.items, SINA_LINKS)
             n == Len(page)
             got == Collect(List([i \in 1..n |-> page[i].bad]),
                            List([i \in 1..n |->
                                /\ Len(Strip(page[i].title)) > MIN_TITLE
                                /\ Contains(Strip(page[i].title), ZH_GU)]),
                            List([i \in 1..n |->
                                Article(Strip(page[i].title), "Sina Finance",
                                        Naive(now), <<>>, "sina")]))
         IN Outcome(got.raised, 1, Prefix(got.arts, SINA_CAP))

fetch_wallstreetcn_rss(resp) ==
    IF resp.status = "raise" THEN Failed(1)
    ELSE LET page == Prefix(resp.items, WSCN_CAP)
             n == Len(page)
         IN Collect(List([i \in 1..n |-> page[i].bad \/ page[i].ts.kind = "bad"]),
                    List([i \in 1..n |-> Len(page[i].title) > MIN_TITLE]),
                    List([i \in 1..n |->
                        Article(page[i].title, "Wall Street CN",
                                EpochPublished(page[i]),
                                Prefix(SummaryOf(page[i]), SUMMARY_CAP),
                                "wallstreetcn")]))

fetch_zh_yahoo_finance(ticker, resp) ==
    IF resp.status = "raise" THEN Failed(1)
    ELSE LET page == Prefix(resp.items, ZHYAHOO_CAP)
             n == Len(page)
         IN Collect(List([i \in 1..n |-> page[i].bad]),
                    List([i \in 1..n |->
                        Len(Strip(page[i].title)) > MIN_TITLE /\ page[i].linked]),
                    List([i \in 1..n |->
                        Article(Strip(page[i].title), "Yahoo Finance HK",
                                Naive(now), <<>>, "yahoo_zh")]))

----------------------------------------------------------------------------
(* Merge steps: dedup, sort, truncate *)

\* the dedup keys of the articles of a pool in get_all_news_cached
NewsKeys(items) == List([i \in 1..Len(items) |-> NewsKey(items[i].title)])

\* which articles of a pool pass the length test of get_all_news_cached
NewsKeysValid(items) == List([i \in 1..Len(items) |-> NewsKeyValid(items[i].title)])

\* the dedup keys of the headlines of a pool in fetch_market_headlines
HeadlineKeys(items) == List([i \in 1..Len(items) |-> HeadlineKey(items[i].title)])

\* which headlines of a pool pass the length test of fetch_market_headlines
HeadlineKeysValid(items) ==
    List([i \in 1..Len(items) |-> HeadlineKeyValid(items[i].title)])

\* a dedup in which the last article of each key stays
DedupLast(items, key, valid) ==
    LET n == Len(items)
        kept == {i \in 1..n : valid[i] /\ \A j \in (i + 1)..n : ~(valid[j] /\ key[j] = key[i])}
        pos == List([i \in 1..n |-> Cardinality({j \in kept : j <= i})])
    IN List([k \in 1..Cardinality(kept) |-> items[CHOOSE i \in kept : pos[i] = k]])

\* the loop over the pool with seen_titles, given each article's key and
\* whether its title passes the length test: an article stays when it passes
\* and no earlier article that passed has its key
Dedup(items, key, valid) ==
    LET n == Len(items)
        kept == {i \in 1..n : valid[i] /\ \A j \in 1..(i - 1) : ~(valid[j] /\ key[j] = key[i])}
        pos == List([i \in 1..n |-> Cardinality({j \in kept : j <= i})])
    IN List([k \in 1..Cardinality(kept) |-> items[CHOOSE i \in kept : pos[i] = k]])

\* comparing two datetimes raises TypeError when one is aware and one naive
Comparable(a, b) == a.published.aware = b.published.aware

\* list.sort raises as soon as it compares an aware with a naive datetime
SortRaises(items) ==
    \E i, j \in 1..Len(items) : ~Comparable(items[i], items[j])

\* position of items[i] after a stable sort on published, ascending
RankAscending(items, i) ==
    Cardinality({j \in 1..Len(items) :
        \/ items[j].published.t < items[i].published.t
        \/ items[j].published.t = items[i].published.t /\ j < i})

\* position of items[i] after list.sort(key=published, reverse=True): newest
\* first, equal keys in their original order
RankNewestFirst(items, i) ==
    Cardinality({j \in 1..Len(items) :
        \/ items[j].published.t > items[i].published.t
        \/ items[j].published.t = items[i].published.t /\ j < i})

\* the sort without reverse=True
SortOldestFirst(items) ==
    LET rank == List([i \in 1..Len(items) |-> RankAscending(items, i)])
    IN List([k \in 1..Len(items) |->
                items[CHOOSE i \in 1..Len(items) : rank[i] = k - 1]])

\* unique_news.sort(key=lambda x: x["published"], reverse=True)
SortByPublished(items) ==
    LET rank == List([i \in 1..Len(items) |-> RankNewestFirst(items, i)])
    IN List([k \in 1..Len(items) |->
                items[CHOOSE i \in 1..Len(items) : rank[i] = k - 1]])

\* a return without the slice
NoTruncate(items, cap) == items

\* a slice that keeps the end of the list
TruncateTail(items, cap) ==
    IF Len(items) <= cap THEN items
    ELSE SubSeq(items, Len(items) - cap + 1, Len(items))

\* unique_news[:50], unique_headlines[:30]
Truncate(items, cap) == Prefix(items, cap)

----------------------------------------------------------------------------
(* The memoizers *)

NoEntry == [value |-> <<>>, stored |-> -1]

TickerRank(t) ==
    IF t = AAPL THEN 1 ELSE IF t = HK0700 THEN 2 ELSE IF t = SS600519 THEN 3 ELSE 4

\* a memoizer keyed by the ticker list in one canonical order
CacheKeySorted(tl) ==
    IF Len(tl) = 2 /\ TickerRank(tl[2]) < TickerRank(tl[1])
    THEN <<tl[2], tl[1]>> ELSE tl

\* st.cache_data keys an entry by the argument list, element by element
CacheKey(tl) == tl

CacheKeys == {CacheKey(tl) : tl \in TickerLists}

\* a store that takes ttl for milliseconds
LookupMillis(entry, ttl) ==
    IF entry.stored >= 0 /\ now * 1000 < entry.stored * 1000 + ttl THEN {TRUE} ELSE {FALSE}

\* outcomes of a lookup: a hit while the entry is younger than ttl, a miss
\* when there is none or it is older; at exactly ttl the timer comparison
\* differs between versions of the cache library
Lookup(entry, ttl) ==
    {h \in BOOLEAN :
        \/ h /\ entry.stored >= 0 /\ now <= entry.stored + ttl
        \/ ~h /\ (entry.stored < 0 \/ now >= entry.stored + ttl)}

Returned(fn, status, value, hit) ==
    [fn |-> fn, status |-> status, value |-> value, hit |-> hit]

Running(fn) == Returned(fn, "running", <<>>, FALSE)

----------------------------------------------------------------------------
(* get_all_news_cached *)

ticker == tickers[ti]

\* one adapter call as the network saw it: what the provider served, how many
\* requests were made, how many articles came back, whether the call raised
LogEntry(adapter, resp, out) ==
    [adapter |-> adapter, tk |-> ti, requests |-> out.requests,
     got |-> Len(out.arts), raised |-> out.raised, served |-> resp.items]

\* the provider an adapter of get_all_news_cached asks: its feed, the subject
\* of its stories (a ticker, or the market), and whether its timestamps
\* carry a UTC offset
Endpoint(adapter) ==
    CASE adapter = "yahoo" -> [tag |-> "y", c |-> TickerChar(ticker), tz |-> FALSE]
      [] adapter = "google_zh" -> [tag |-> "c", c |-> TickerChar(ticker), tz |-> FALSE]
      [] adapter = "yahoo_zh" -> [tag |-> "z", c |-> TickerChar(ticker), tz |-> FALSE]
      [] adapter = "sina" -> [tag |-> "s", c |-> "M", tz |-> FALSE]
      [] adapter = "wallstreetcn" -> [tag |-> "w", c |-> "M", tz |-> FALSE]
      [] adapter = "google" -> [tag |-> "g", c |-> TickerChar(ticker), tz |-> FALSE]
      [] adapter = "finnhub" -> [tag |-> "f", c |-> TickerChar(ticker), tz |-> FALSE]
      [] adapter = "newsapi" -> [tag |-> "n", c |-> TickerChar(ticker), tz |-> TRUE]
      [] adapter = "alphavantage" -> [tag |-> "a", c |-> TickerChar(ticker), tz |-> FALSE]

\* the adapter's return value on its provider's answer
Fetch(adapter, resp) ==
    CASE adapter = "yahoo" -> fetch_yahoo_news(ticker, resp)
      [] adapter = "google_zh" -> fetch_google_news_chinese(ticker, resp)
      [] adapter = "yahoo_zh" -> fetch_zh_yahoo_finance(ticker, resp)
      [] adapter = "sina" -> fetch_sina_finance_rss(ticker, resp)
      [] adapter = "wallstreetcn" -> fetch_wallstreetcn_rss(resp)
      [] adapter = "google" -> fetch_google_news_rss(ticker, resp)
      [] adapter = "finnhub" -> fetch_finnhub_news(ticker, resp)
      [] adapter = "newsapi" -> fetch_newsapi_news(ticker, resp)
      [] adapter = "alphavantage" -> fetch_alphavantage_news(ticker, resp)

\* an aggregator that puts each adapter's articles in front of the pool
InvokePrepend(adapter, applies, next) ==
    /\ IF applies
       THEN LET ep == Endpoint(adapter)
            IN \E resp \in Responses(ep.tag, ep.c, ep.tz) :
                 LET out == Fetch(adapter, resp)
                 IN /\ all_news' = out.arts \o all_news
                    /\ netlog' = Append(netlog, LogEntry(adapter, resp, out))
                    /\ budget' = IF IsRegular(ep.tag, ep.c, ep.tz, resp)
                                 THEN budget ELSE budget - 1
       ELSE UNCHANGED <<all_news, netlog, budget>>
    /\ pc' = next
    /\ UNCHANGED <<keys, now, pagesize, callsLeft, cache, hcache, computed,
                   tickers, ti, company_name, unique_news, result>>

\* an aggregator that calls an adapter again when its attempt failed
InvokeRetry(adapter, applies, next) ==
    /\ IF applies
       THEN LET ep == Endpoint(adapter)
            IN \E resp \in Responses(ep.tag, ep.c, ep.tz) :
                 LET out == Fetch(adapter, resp)
                 IN /\ all_news' = all_news \o out.arts
                    /\ netlog' = Append(netlog, LogEntry(adapter, resp, out))
                    /\ budget' = IF IsRegular(ep.tag, ep.c, ep.tz, resp)
                                 THEN budget ELSE budget - 1
                    /\ pc' = IF out.raised THEN pc ELSE next
       ELSE /\ UNCHANGED <<all_news, netlog, budget>>
            /\ pc' = next
    /\ UNCHANGED <<keys, now, pagesize, callsLeft, cache, hcache, computed,
                   tickers, ti, company_name, unique_news, result>>

\* all_news.extend(fetch(...)) when the adapter applies, nothing otherwise
Invoke(adapter, applies, next) ==
    /\ IF applies
       THEN LET ep == Endpoint(adapter)
            IN \E resp \in Responses(ep.tag, ep.c, ep.tz) :
                 LET out == Fetch(adapter, resp)
                 IN /\ all_news' = all_news \o out.arts
                    /\ netlog' = Append(netlog, LogEntry(adapter, resp, out))
                    /\ budget' = IF IsRegular(ep.tag, ep.c, ep.tz, resp)
                                 THEN budget ELSE budget - 1
       ELSE UNCHANGED <<all_news, netlog, budget>>
    /\ pc' = next
    /\ UNCHANGED <<keys, now, pagesize, callsLeft, cache, hcache, computed,
                   tickers, ti, company_name, unique_news, result>>

\* the call: the memoizer answers from its store or runs the function
CallNews(tl) ==
    /\ pc = "idle"
    /\ callsLeft > 0
    /\ callsLeft' = callsLeft - 1
    /\ tickers' = tl
    /\ ti' = 1
    /\ all_news' = <<>>
    /\ unique_news' = <<>>
    /\ netlog' = <<>>
    /\ company_name' = "none"
    /\ \E hit \in Lookup(cache[CacheKey(tl)], TTL_NEWS) :
         IF hit
         THEN /\ result' = Returned("news", "ok", cache[CacheKey(tl)].value, TRUE)
              /\ pc' = "idle"
              /\ cache' = cache
         ELSE /\ result' = Running("news")
              /\ pc' = "info"
              /\ cache' = [cache EXCEPT ![CacheKey(tl)] = NoEntry]
    /\ UNCHANGED <<keys, now, pagesize, budget, hcache, computed>>

\* company_name = yf.Ticker(ticker).info.get("shortName", ticker), or the
\* ticker when the lookup fails
ResolveName ==
    /\ pc = "info"
    /\ \E ok \in (IF budget = 0 THEN {TRUE} ELSE BOOLEAN) :
         /\ company_name' = IF ok THEN "shortName" ELSE "ticker"
         /\ budget' = IF ok THEN budget ELSE budget - 1
    /\ pc' = "yahoo"
    /\ UNCHANGED <<keys, now, pagesize, callsLeft, cache, hcache, computed, tickers,
                   ti, all_news, unique_news, result, netlog>>

FetchYahoo ==
    /\ pc = "yahoo"
    /\ Invoke("yahoo", TRUE, "google_zh")

FetchGoogleChinese ==
    /\ pc = "google_zh"
    /\ Invoke("google_zh", IsGreaterChina(ticker), "yahoo_zh")

FetchZhYahoo ==
    /\ pc = "yahoo_zh"
    /\ Invoke("yahoo_zh", IsGreaterChina(ticker), "sina")

FetchSina ==
    /\ pc = "sina"
    /\ Invoke("sina", IsGreaterChina(ticker), "wallstreetcn")

FetchWallStreetCN ==
    /\ pc = "wallstreetcn"
    /\ Invoke("wallstreetcn", IsGreaterChina(ticker), "google")

FetchGoogleRss ==
    /\ pc = "google"
    /\ Invoke("google", TRUE, "finnhub")

FetchFinnhub ==
    /\ pc = "finnhub"
    /\ Invoke("finnhub", HasKey("finnhub"), "newsapi")

FetchNewsApi ==
    /\ pc = "newsapi"
    /\ Invoke("newsapi", HasKey("newsapi"), "alphavantage")

FetchAlphaVantage ==
    /\ pc = "alphavantage"
    /\ Invoke("alphavantage", HasKey("alphavantage"), "next")

\* the end of one turn of "for ticker in tickers"
NextTicker ==
    /\ pc = "next"
    /\ IF ti < Len(tickers)
       THEN ti' = ti + 1 /\ pc' = "info"
       ELSE ti' = ti /\ pc' = "dedup"
    /\ UNCHANGED <<keys, now, pagesize, budget, callsLeft, cache, hcache, computed,
                   tickers, company_name, all_news, unique_news, result, netlog>>

DedupNews ==
    /\ pc = "dedup"
    /\ unique_news' = Dedup(all_news, NewsKeys(all_news), NewsKeysValid(all_news))
    /\ pc' = "sort"
    /\ UNCHANGED <<keys, now, pagesize, budget, callsLeft, cache, hcache, computed,
                   tickers, ti, company_name, all_news, result, netlog>>

\* a memoizer that keeps no entry for an empty result
SortReturnNewsSkipEmpty ==
    /\ pc = "sort"
    /\ IF SortRaises(unique_news)
       THEN /\ result' = Returned("news", "error", <<>>, FALSE)
            /\ UNCHANGED <<cache, computed>>
       ELSE LET value == Truncate(SortByPublished(unique_news), NEWS_CAP)
            IN /\ result' = Returned("news", "ok", value, FALSE)
               /\ IF value = <<>>
                  THEN UNCHANGED cache
                  ELSE cache' = [cache EXCEPT ![CacheKey(tickers)] =
                                    [value |-> value, stored |-> now]]
               /\ computed' = [computed EXCEPT ![tickers] =
                                [value |-> value, stored |-> now]]
    /\ pc' = "idle"
    /\ UNCHANGED <<keys, now, pagesize, budget, callsLeft, hcache, tickers, ti,
                   company_name, all_news, unique_news, netlog>>

\* sort, truncate, return; the memoizer stores what the function returned,
\* and nothing when it raised
SortReturnNews ==
    /\ pc = "sort"
    /\ IF SortRaises(unique_news)
       THEN /\ result' = Returned("news", "error", <<>>, FALSE)
            /\ UNCHANGED <<cache, computed>>
       ELSE LET value == Truncate(SortByPublished(unique_news), NEWS_CAP)
            IN /\ result' = Returned("news", "ok", value, FALSE)
               /\ cache' = [cache EXCEPT ![CacheKey(tickers)] =
                                [value |-> value, stored |-> now]]
               /\ computed' = [computed EXCEPT ![tickers] =
                                [value |-> value, stored |-> now]]
    /\ pc' = "idle"
    /\ UNCHANGED <<keys, now, pagesize, budget, callsLeft, hcache, tickers, ti,
                   company_name, all_news, unique_news, netlog>>

----------------------------------------------------------------------------
(* fetch_market_headlines and get_market_headlines_cached *)

NoArgs == <<>>

\* a source block of fetch_market_headlines appends to all_headlines item by
\* item inside its try: what was appended before an item raised stays
HeadlineCollect(raises, keep, made) ==
    LET bad == {i \in 1..Len(raises) : raises[i]}
        stop == IF bad = {} THEN Len(raises) + 1
                ELSE CHOOSE i \in bad : \A j \in bad : i <= j
        kept == SelectSeq(List([i \in 1..(stop - 1) |-> <<keep[i], made[i]>>]),
                          LAMBDA p : p[1])
    IN Outcome(bad # {}, 1, List([i \in 1..Len(kept) |-> kept[i][2]]))

\* the feed a source block of fetch_market_headlines reads
HeadlineFeed(adapter) ==
    CASE adapter = "h_wallstreetcn" -> "w"
      [] adapter = "h_google_hk" -> "k"
      [] adapter = "h_google_global" -> "l"

\* what a source block appends, given the items of its feed
HeadlineFetch(adapter, items) ==
    LET page == Prefix(items, HL_CAP)
        n == Len(page)
    IN CASE adapter = "h_wallstreetcn" ->
              HeadlineCollect(
                  List([i \in 1..n |-> page[i].bad \/ page[i].ts.kind = "bad"]),
                  List([i \in 1..n |-> Len(page[i].title) > MIN_TITLE]),
                  List([i \in 1..n |->
                      Article(page[i].title, "Wall Street CN", EpochPublished(page[i]),
                              Prefix(SummaryOf(page[i]), SUMMARY_CAP),
                              "h_wallstreetcn")]))
         [] adapter = "h_google_hk" ->
              HeadlineCollect(
                  List([i \in 1..n |-> page[i].bad]),
                  List([i \in 1..n |-> Len(page[i].title) > MIN_TITLE]),
                  List([i \in 1..n |->
                      Article(page[i].title, "Google News (zh)", RssPublished(page[i]),
                              <<>>, "h_google_hk")]))
         [] adapter = "h_google_global" ->
              HeadlineCollect(
                  List([i \in 1..n |-> page[i].bad]),
                  List([i \in 1..n |-> Len(page[i].title) > MIN_TITLE]),
                  List([i \in 1..n |->
                      Article(page[i].title, "Google News", RssPublished(page[i]),
                              <<>>, "h_google_global")]))

HeadlineSource(adapter, next) ==
    /\ \E resp \in Responses(HeadlineFeed(adapter), "M", FALSE) :
         LET out == IF resp.status = "raise" THEN Failed(1)
                    ELSE HeadlineFetch(adapter, resp.items)
         IN /\ all_news' = all_news \o out.arts
            /\ netlog' = Append(netlog, LogEntry(adapter, resp, out))
            /\ budget' = IF IsRegular(HeadlineFeed(adapter), "M", FALSE, resp)
                         THEN budget ELSE budget - 1
    /\ pc' = next
    /\ UNCHANGED <<keys, now, pagesize, callsLeft, cache, hcache, computed,
                   tickers, ti, company_name, unique_news, result>>

CallHeadlines ==
    /\ pc = "idle"
    /\ callsLeft > 0
    /\ callsLeft' = callsLeft - 1
    /\ tickers' = NoArgs
    /\ ti' = 0
    /\ all_news' = <<>>
    /\ unique_news' = <<>>
    /\ netlog' = <<>>
    /\ company_name' = "none"
    /\ \E hit \in Lookup(hcache, TTL_HEADLINES) :
         IF hit
         THEN /\ result' = Returned("headlines", "ok", hcache.value, TRUE)
              /\ pc' = "idle"
              /\ hcache' = hcache
         ELSE /\ result' = Running("headlines")
              /\ pc' = "h_wallstreetcn"
              /\ hcache' = NoEntry
    /\ UNCHANGED <<keys, now, pagesize, budget, cache, computed>>

HeadlinesWallStreetCN ==
    /\ pc = "h_wallstreetcn"
    /\ HeadlineSource("h_wallstreetcn", "h_google_hk")

HeadlinesGoogleHK ==
    /\ pc = "h_google_hk"
    /\ HeadlineSource("h_google_hk", "h_google_global")

HeadlinesGoogleGlobal ==
    /\ pc = "h_google_global"
    /\ HeadlineSource("h_google_global", "h_finish")

\* dedup, sort, truncate, return; the memoizer stores the returned value
FinishHeadlines ==
    /\ pc = "h_finish"
    /\ LET unique == Dedup(all_news, HeadlineKeys(all_news),
                        HeadlineKeysValid(all_news))
       IN /\ unique_news' = unique
          /\ IF SortRaises(unique)
             THEN /\ result' = Returned("headlines", "error", <<>>, FALSE)
                  /\ UNCHANGED <<hcache, computed>>
             ELSE LET value == Truncate(SortByPublished(unique), HEADLINES_CAP)
                  IN /\ result' = Returned("headlines", "ok", value, FALSE)
                     /\ hcache' = [value |-> value, stored |-> now]
                     /\ computed' = [computed EXCEPT ![NoArgs] =
                                        [value |-> value, stored |-> now]]
    /\ pc' = "idle"
    /\ UNCHANGED <<keys, now, pagesize, budget, callsLeft, cache, tickers, ti,
                   company_name, all_news, netlog>>

----------------------------------------------------------------------------
(* Environment *)

\* the clock advances between calls
Tick ==
    /\ pc = "idle"
    /\ now + TickStep <= MaxTime
    /\ now' = now + TickStep
    /\ UNCHANGED <<keys, pagesize, budget, callsLeft, cache, hcache, computed, pc,
                   tickers, ti, company_name, all_news, unique_news, result, netlog>>

\* the providers go quiet (nothing to serve) or recover
FeedChange ==
    /\ pc = "idle"
    /\ pagesize' \in {0, SmallPage} \ {pagesize}
    /\ UNCHANGED <<keys, now, budget, callsLeft, cache, hcache, computed, pc,
                   tickers, ti, company_name, all_news, unique_news, result, netlog>>

----------------------------------------------------------------------------
(* Specifications *)

KeyNames == {"finnhub", "newsapi", "alphavantage"}

InitCommon ==
    /\ keys \in [KeyNames -> BOOLEAN]
    /\ now = StartTime
    /\ cache = [k \in CacheKeys |-> NoEntry]
    /\ hcache = NoEntry
    /\ computed = [k \in TickerLists \cup {NoArgs} |-> NoEntry]
    /\ pc = "idle"
    /\ tickers = NoArgs
    /\ ti = 0
    /\ company_name = "none"
    /\ all_news = <<>>
    /\ unique_news = <<>>
    /\ result = Returned("none", "none", <<>>, FALSE)
    /\ netlog = <<>>

\* one call in a fresh process, any provider volume, misbehaving providers
Init ==
    /\ InitCommon
    /\ pagesize \in {SmallPage, LargePage}
    /\ budget = MaxDeviations
    /\ callsLeft = PipeCalls

Next ==
    \/ \E tl \in TickerLists : CallNews(tl)
    \/ ResolveName
    \/ FetchYahoo
    \/ FetchGoogleChinese
    \/ FetchZhYahoo
    \/ FetchSina
    \/ FetchWallStreetCN
    \/ FetchGoogleRss
    \/ FetchFinnhub
    \/ FetchNewsApi
    \/ FetchAlphaVantage
    \/ NextTicker
    \/ DedupNews
    \/ SortReturnNews
    \/ CallHeadlines
    \/ HeadlinesWallStreetCN
    \/ HeadlinesGoogleHK
    \/ HeadlinesGoogleGlobal
    \/ FinishHeadlines

Spec == Init /\ [][Next]_vars

\* several calls over time, providers that go quiet and recover
InitCache ==
    /\ InitCommon
    /\ keys \in {[k \in KeyNames |-> FALSE], [k \in KeyNames |-> TRUE]}
    /\ pagesize \in {0, SmallPage}
    /\ budget = 0
    /\ callsLeft = MaxCalls

NextCache == Next \/ Tick \/ FeedChange

SpecCache == InitCache /\ [][NextCache]_vars

\* several calls over time, starting while the providers are down (nothing
\* to serve, or a request that fails), no API key configured
InitOutage ==
    /\ InitCommon
    /\ keys = [k \in KeyNames |-> FALSE]
    /\ pagesize = 0
    /\ budget = MaxDeviations
    /\ callsLeft = MaxCalls

\* the ticker lists of the calls made during the outage
OutageLists == {<<AAPL>>, <<HK0700>>}

NextOutage ==
    \/ \E tl \in OutageLists : CallNews(tl)
    \/ ResolveName
    \/ FetchYahoo
    \/ FetchGoogleChinese
    \/ FetchZhYahoo
    \/ FetchSina
    \/ FetchWallStreetCN
    \/ FetchGoogleRss
    \/ FetchFinnhub
    \/ FetchNewsApi
    \/ FetchAlphaVantage
    \/ NextTicker
    \/ DedupNews
    \/ SortReturnNews
    \/ Tick
    \/ FeedChange

SpecOutage == InitOutage /\ [][NextOutage]_vars

----------------------------------------------------------------------------
(* Properties *)

\* a get_all_news_cached call that ran the function has come back
NewsComputed ==
    /\ pc = "idle"
    /\ result.fn = "news"
    /\ ~result.hit
    /\ result.status \in {"ok", "error"}

AdapterOrder == <<"yahoo", "google_zh", "yahoo_zh", "sina", "wallstreetcn",
                  "google", "finnhub", "newsapi", "alphavantage">>

ChineseBundle == {"google_zh", "yahoo_zh", "sina", "wallstreetcn"}

\* whether get_all_news_cached is to invoke the adapter for ticker t
Applies(adapter, t) ==
    IF adapter \in ChineseBundle THEN t.suffix \in {".HK", ".SS", ".SZ"}
    ELSE IF adapter \in KeyNames THEN keys[adapter]
    ELSE TRUE

Invoked(adapter, k) ==
    \E e \in 1..Len(netlog) : netlog[e].adapter = adapter /\ netlog[e].tk = k

\* C1: get_all_news_cached never fails because of adapter outcomes: whatever
\* the adapters raised or returned, the call returns a sequence of articles
C1_NeverFails == result.fn = "news" => result.status # "error"

\* an article is represented in the returned sequence: by itself or by the
\* article of its dedup key, unless its title is too short for the dedup step
Represented(a) ==
    \/ Len(Strip(Lower(a.title))) <= MIN_DEDUP
    \/ \E r \in 1..Len(result.value) :
          TitleKeyStripped(result.value[r].title) = TitleKeyStripped(a.title)

\* C2: when an adapter's network call raises during a get_all_news_cached
\* request, that adapter contributes no article, every other adapter is still
\* invoked, and what the others returned is in the result, up to dedup and
\* the cap of 50
C2_GracefulDegradation ==
    (NewsComputed /\ \E e \in 1..Len(netlog) : netlog[e].raised) =>
        /\ \A e \in 1..Len(netlog) : netlog[e].raised =>
              /\ netlog[e].got = 0
              /\ \A i \in 1..Len(all_news) :
                    ~(all_news[i].origin = netlog[e].adapter
                      /\ all_news[i].tk = netlog[e].tk)
        /\ \A k \in 1..Len(tickers) : \A a \in 1..Len(AdapterOrder) :
              Applies(AdapterOrder[a], tickers[k]) => Invoked(AdapterOrder[a], k)
        /\ result.status = "ok"
        /\ \/ Len(result.value) = NEWS_CAP
           \/ \A i \in 1..Len(all_news) : Represented(all_news[i])

\* lowercased 60-character prefixes of the titles of a pool
RawKeys(items) == List([i \in 1..Len(items) |-> TitleKeyRaw(items[i].title)])

\* of the fetched articles that share a key with an earlier fetched article
\* (among those the rule applies to), the pool holds exactly one article of
\* that key: the first one fetched
OneOfEachKey(fetched, fk, applies, pool, pk) ==
    \A j \in 1..Len(fetched) :
        (applies[j] /\ \E i \in 1..(j - 1) : fk[i] = fk[j]) =>
            LET first == CHOOSE p \in 1..j :
                             fk[p] = fk[j] /\ \A q \in 1..(p - 1) : fk[q] # fk[j]
                held == {u \in 1..Len(pool) : pk[u] = fk[j]}
            IN /\ Cardinality(held) = 1
               /\ \A u \in held : pool[u] = fetched[first]

\* C3, as stated: of any two fetched articles whose titles have equal
\* lowercased 60-character prefixes, the merged pool holds exactly one
\* article of that prefix, the first in fetch order
C3_DedupByLowercasedPrefix ==
    pc = "sort" =>
        OneOfEachKey(all_news, RawKeys(all_news),
                     List([i \in 1..Len(all_news) |-> TRUE]),
                     unique_news, RawKeys(unique_news))

\* C3, amended: of any two fetched articles whose lowercased, stripped titles
\* have equal 60-character prefixes and more than 2 characters, the merged
\* pool holds exactly one article of that key, the first in fetch order
C3_DedupByStrippedKey ==
    pc = "sort" =>
        OneOfEachKey(all_news, NewsKeys(all_news), NewsKeysValid(all_news),
                     unique_news, NewsKeys(unique_news))

\* two adapters fetched articles of one key; the later one is not in the pool
C3_Witness ==
    /\ pc = "sort"
    /\ \E i, j \in 1..Len(all_news) :
          /\ i < j
          /\ all_news[i].origin # all_news[j].origin
          /\ all_news[i] # all_news[j]
          /\ TitleKeyStripped(all_news[i].title) = TitleKeyStripped(all_news[j].title)
          /\ Len(Strip(Lower(all_news[i].title))) > MIN_DEDUP
          /\ \A u \in 1..Len(unique_news) : unique_news[u] # all_news[j]
          /\ \E u \in 1..Len(unique_news) : unique_news[u] = all_news[i]

\* C4: in every sequence get_all_news_cached and fetch_market_headlines
\* return, each adjacent pair (a, b) has a.published >= b.published
C4_SortedNewestFirst ==
    result.status = "ok" =>
        \A k \in 1..(Len(result.value) - 1) :
            /\ Comparable(result.value[k], result.value[k + 1])
            /\ result.value[k].published.t >= result.value[k + 1].published.t

\* a returned sequence whose articles were fetched in another order
C4_Witness ==
    /\ pc = "idle"
    /\ result.status = "ok"
    /\ ~result.hit
    /\ \E i, j \in 1..Len(unique_news) :
          i < j /\ unique_news[i].published.t < unique_news[j].published.t
    /\ \E k \in 1..(Len(result.value) - 1) :
          result.value[k].published.t > result.value[k + 1].published.t

\* C5: get_all_news_cached returns at most 50 articles and
\* get_market_headlines_cached at most 30
C5_Capped ==
    result.status = "ok" =>
        /\ result.fn = "news" => Len(result.value) <= NEWS_CAP
        /\ result.fn = "headlines" => Len(result.value) <= HEADLINES_CAP

\* a deduplicated pool of more than 50 articles, cut to 50
C5_Witness ==
    /\ pc = "idle"
    /\ result.fn = "news"
    /\ result.status = "ok"
    /\ Len(unique_news) > NEWS_CAP
    /\ Len(result.value) = NEWS_CAP

----------------------------------------------------------------------------
(* Properties of the memoizers, checked under SpecCache *)

\* the step in which a caller calls get_all_news_cached(tl)
CallsNews(tl) == pc = "idle" /\ callsLeft' = callsLeft - 1 /\ tickers' = tl

\* the step in which a caller calls get_market_headlines_cached()
CallsHeadlines == pc = "idle" /\ callsLeft' = callsLeft - 1 /\ tickers' = NoArgs

\* the last computing call of this key returned less than ttl ago
Young(key, ttl) == computed[key].stored >= 0 /\ now < computed[key].stored + ttl

\* the last computing call of this key returned more than ttl ago
Old(key, ttl) == computed[key].stored >= 0 /\ now > computed[key].stored + ttl

ServedFromCache(key) ==
    /\ result'.hit
    /\ result'.status = "ok"
    /\ result'.value = computed[key].value
    /\ netlog' = <<>>
    /\ pc' = "idle"

\* C6: a call of get_all_news_cached with the same tickers less than 1800 s
\* after the entry was computed returns the same sequence and invokes no
\* adapter; likewise get_market_headlines_cached within 900 s
C6_IdempotentWithinTtl ==
    [][/\ \A tl \in TickerLists :
             (CallsNews(tl) /\ Young(tl, TTL_NEWS)) => ServedFromCache(tl)
       /\ (CallsHeadlines /\ Young(NoArgs, TTL_HEADLINES)) => ServedFromCache(NoArgs)]_vars

\* a later call answered with the articles an earlier call computed
C6_Witness ==
    /\ result.hit
    /\ result.fn = "news"
    /\ result.value # <<>>
    /\ result.value = computed[tickers].value
    /\ now > computed[tickers].stored

SameTickers(tl1, tl2) ==
    {tl1[i] : i \in 1..Len(tl1)} = {tl2[i] : i \in 1..Len(tl2)}

C8_RecomputedAfterTtl ==
    [][/\ \A tl \in TickerLists :
             (CallsNews(tl) /\ Old(tl, TTL_NEWS)) => (~result'.hit /\ pc' = "info")
       /\ (CallsHeadlines /\ Old(NoArgs, TTL_HEADLINES))
             => (~result'.hit /\ pc' = "h_wallstreetcn")
       /\ (pc = "sort" /\ pc' = "idle" /\ Old(tickers, TTL_NEWS)) =>
             /\ result'.status = "ok"
             /\ cache'[tickers] = [value |-> result'.value, stored |-> now]
       /\ (pc = "h_finish" /\ pc' = "idle" /\ Old(NoArgs, TTL_HEADLINES)) =>
             /\ result'.status = "ok"
             /\ hcache' = [value |-> result'.value, stored |-> now]]_vars

----------------------------------------------------------------------------
(* Properties of the invocation order, checked under Spec *)

\* C9: with the API key of Finnhub, NewsAPI or Alpha Vantage unset, no
\* request goes to that provider during a get_all_news_cached call and the
\* adapter contributes no article; the other adapters are invoked as usual
C9_CredentialGating ==
    result.fn = "news" =>
        \A key \in KeyNames : ~keys[key] =>
            /\ \A e \in 1..Len(netlog) : netlog[e].adapter # key
            /\ \A i \in 1..Len(all_news) : all_news[i].origin # key
            /\ pc \in {"dedup", "sort"} =>
                  \A k \in 1..Len(tickers) : \A a \in 1..Len(AdapterOrder) :
                      (AdapterOrder[a] # key /\ Applies(AdapterOrder[a], tickers[k]))
                          => Invoked(AdapterOrder[a], k)

\* a finished sweep without NewsAPI key in which Finnhub contributed
C9_Witness ==
    /\ pc = "sort"
    /\ ~keys["newsapi"]
    /\ keys["finnhub"]
    /\ \E e \in 1..Len(netlog) : netlog[e].adapter = "finnhub" /\ netlog[e].got > 0
    /\ \E e \in 1..Len(netlog) : netlog[e].adapter = "google" /\ netlog[e].got > 0

\* the adapters get_all_news_cached is to invoke for ticker number k, in order
CallsFor(k) ==
    LET applicable == SelectSeq(AdapterOrder, LAMBDA a : Applies(a, tickers[k]))
    IN List([i \in 1..Len(applicable) |-> <<applicable[i], k>>])

RECURSIVE CallsUpTo(_)
CallsUpTo(k) == IF k = 0 THEN <<>> ELSE CallsUpTo(k - 1) \o CallsFor(k)

IsPrefixOf(s, t) == Len(s) <= Len(t) /\ SubSeq(t, 1, Len(s)) = s

----------------------------------------------------------------------------
(* get_ticker_news: the per-ticker filter over an already fetched pool *)

\* the ticker as the string the application passes
TickerText(t) ==
    IF t = AAPL THEN <<"A","A","P","L">>
    ELSE IF t = HK0700 THEN <<"0","7","0","0",".","H","K">>
    ELSE IF t = SS600519 THEN <<"6","0","0","5","1","9",".","S","S">>
    ELSE <<"0","0","0","0","0","1",".","S","Z">>

\* sub in s
Occurs(sub, s) ==
    \E i \in 0..(Len(s) - Len(sub)) : SubSeq(s, i + 1, i + Len(sub)) = sub

\* s.replace(sub, "")
RECURSIVE Remove(_, _)
Remove(s, sub) ==
    IF Len(s) < Len(sub) \/ Len(s) = 0 THEN s
    ELSE IF SubSeq(s, 1, Len(sub)) = sub
         THEN Remove(SubSeq(s, Len(sub) + 1, Len(s)), sub)
         ELSE <<s[1]>> \o Remove(Tail(s), sub)

\* ticker.replace(".HK", "").replace(".SS", "").replace(".SZ", "")
TickerBase(text) ==
    Remove(Remove(Remove(text, <<".","H","K">>), <<".","S","S">>), <<".","S","Z">>)

\* str(keywords) of a list of strings: ['a', 'b']
RECURSIVE StrItems(_)
StrItems(keywords) ==
    IF Len(keywords) = 0 THEN <<>>
    ELSE <<"'">> \o keywords[1] \o <<"'">>
         \o (IF Len(keywords) = 1 THEN <<>> ELSE <<",", " ">>)
         \o StrItems(Tail(keywords))

StrList(keywords) == <<"[">> \o StrItems(keywords) \o <<"]">>

\* a filter that also looks for the base form in the link
IsRelevantBaseInLink(text, item) ==
    \/ Occurs(Lower(text), Lower(item.link))
    \/ Occurs(Lower(TickerBase(text)), Lower(item.link))
    \/ Occurs(Lower(text), Lower(item.title))
    \/ Occurs(Lower(TickerBase(text)), Lower(item.title))
    \/ Occurs(text, StrList(item.keywords))

\* the condition of get_ticker_news on one item
IsRelevant(text, item) ==
    \/ Occurs(Lower(text), Lower(item.link))
    \/ Occurs(Lower(text), Lower(item.title))
    \/ Occurs(Lower(TickerBase(text)), Lower(item.title))
    \/ Occurs(text, StrList(item.keywords))

\* a filter that returns the relevant articles last first
get_ticker_news_reversed(text, pool) ==
    LET kept == SelectSeq(pool, LAMBDA item : IsRelevant(text, item))
    IN List([k \in 1..Len(kept) |-> kept[Len(kept) + 1 - k]])

\* relevant = [item for item in all_news if ...], in pool order
get_ticker_news(text, pool) == SelectSeq(pool, LAMBDA item : IsRelevant(text, item))

PoolItem(title, link, keywords) ==
    [title |-> title, link |-> link, keywords |-> keywords]

\* articles a fetched pool can hold, as far as the filter reads them
PoolItems ==
    { PoolItem(<<"T","c"," ","u","p">>, <<"n","/","0","7","0","0",".","H","K">>, <<>>),
      PoolItem(<<"T","c"," ","u","p">>, <<"n","/","0","7","0","0",".","h","k">>, <<>>),
      PoolItem(<<"o","t","h","e","r">>, <<"n","/","b">>, <<>>),
      PoolItem(<<"T","c">>, <<"n","/","0","7","0","0">>, <<>>),
      PoolItem(<<"0","7","0","0"," ","u","p">>, <<"#">>, <<>>),
      PoolItem(<<"x">>, <<"#">>, <<<<"0","7","0","0",".","H","K">>>>),
      PoolItem(<<"x">>, <<"#">>, <<<<"0","7","0","0",".","h","k">>>>),
      PoolItem(<<"a","a","p","l"," ","u","p">>, <<"#">>, <<>>),
      PoolItem(<<"x">>, <<"n","/","A","a","p","L">>, <<>>),
      PoolItem(<<"x">>, <<"#">>, <<<<"M","S","F","T">>, <<"A","A","P","L">>>>),
      PoolItem(<<"x">>, <<"#">>, <<<<"a","a","p","l">>>>),
      PoolItem(<<"6","0","0","5","1","9">>, <<"n","/","6","0","0","5","1","9">>, <<>>) }

MaxPool == 2

Pools == UNION {[1..n -> PoolItems] : n \in 0..MaxPool}

\* the application holds a fetched pool, the value get_all_news_cached
\* returned and its memoizer stored, and is about to filter it for a ticker
InitFilter ==
    /\ keys = [k \in KeyNames |-> FALSE]
    /\ now = StartTime
    /\ pagesize = 0
    /\ budget = 0
    /\ callsLeft = 0
    /\ hcache = NoEntry
    /\ computed = [k \in TickerLists \cup {NoArgs} |-> NoEntry]
    /\ pc = "filter"
    /\ tickers \in {<<AAPL>>, <<HK0700>>, <<SS600519>>}
    /\ ti = 1
    /\ company_name = "none"
    /\ all_news \in Pools
    /\ cache = [k \in CacheKeys |->
                   IF k = CacheKey(tickers)
                   THEN [value |-> all_news, stored |-> now] ELSE NoEntry]
    /\ unique_news = <<>>
    /\ result = Returned("none", "none", <<>>, FALSE)
    /\ netlog = <<>>

\* ticker_news = get_ticker_news(ticker, news_items), on every pass of the
\* loop over the tickers
GetTickerNews ==
    /\ pc \in {"filter", "filtered"}
    /\ result' = Returned("ticker_news", "ok",
                          get_ticker_news(TickerText(ticker), all_news), FALSE)
    /\ pc' = "filtered"
    /\ UNCHANGED <<keys, now, pagesize, budget, callsLeft, cache, hcache, computed,
                   tickers, ti, company_name, all_news, unique_news, netlog>>

NextFilter == GetTickerNews

SpecFilter == InitFilter /\ [][NextFilter]_vars

\* the positions of pool, in order, that hold the articles of kept
RECURSIVE IsSubsequenceAt(_, _, _)
IsSubsequenceAt(kept, pool, wanted) ==
    IF Len(pool) = 0 THEN Len(kept) = 0
    ELSE IF wanted[1]
         THEN /\ Len(kept) > 0
              /\ kept[1] = pool[1]
              /\ IsSubsequenceAt(Tail(kept), Tail(pool), Tail(wanted))
         ELSE IsSubsequenceAt(kept, Tail(pool), Tail(wanted))

\* the ticker or its base form occurs, whatever the case, in s
NamedIn(text, s) ==
    Occurs(Lower(text), Lower(s)) \/ Occurs(Lower(TickerBase(text)), Lower(s))

\* C11, as stated: get_ticker_news retains exactly the articles for which the
\* ticker or its suffix-stripped base form occurs, case-insensitively, in the
\* link or in the title, or the raw ticker occurs in str(keywords)
C11_FilterTickerOrBase ==
    pc = "filtered" =>
        IsSubsequenceAt(result.value, all_news,
            List([i \in 1..Len(all_news) |->
                \/ NamedIn(TickerText(ticker), all_news[i].link)
                \/ NamedIn(TickerText(ticker), all_news[i].title)
                \/ Occurs(TickerText(ticker), StrList(all_news[i].keywords))]))

\* C11, amended: get_ticker_news retains exactly the articles for which the
\* ticker occurs, case-insensitively, in the link or in the title, or its
\* suffix-stripped base form occurs, case-insensitively, in the title (not
\* the link), or the raw ticker occurs in str(keywords)
C11_FilterExact ==
    pc = "filtered" =>
        IsSubsequenceAt(result.value, all_news,
            List([i \in 1..Len(all_news) |->
                \/ Occurs(Lower(TickerText(ticker)), Lower(all_news[i].link))
                \/ NamedIn(TickerText(ticker), all_news[i].title)
                \/ Occurs(TickerText(ticker), StrList(all_news[i].keywords))]))

\* a pool of an article whose link holds 0700.HK and one whose link holds
\* only the base form 0700, filtered for 0700.HK, gives the first only
C11_Witness ==
    /\ pc = "filtered"
    /\ tickers = <<HK0700>>
    /\ Len(all_news) = 2
    /\ Occurs(TickerText(HK0700), all_news[1].link)
    /\ Occurs(TickerBase(TickerText(HK0700)), all_news[2].link)
    /\ ~Occurs(Lower(TickerText(HK0700)), Lower(all_news[2].link))
    /\ result.value = <<all_news[1]>>

----------------------------------------------------------------------------
(* Properties of the articles, checked under Spec *)

\* C12: every article the aggregation pipeline produces carries an
\* industries value that is never empty
C12_ClassifierTotality ==
    (result.fn = "news" /\ result.status = "ok") =>
        \A i \in 1..Len(result.value) :
            /\ "industries" \in DOMAIN result.value[i]
            /\ result.value[i].industries # {}

\* C13, as stated: no article whose title has 5 or fewer characters is in
\* the pool get_all_news_cached returns, whichever adapter fetched it; the
\* headlines returned have titles longer than 2 characters
C13_TitlesLongerThanFive ==
    result.status = "ok" =>
        /\ result.fn = "news" =>
              \A i \in 1..Len(result.value) : Len(result.value[i].title) > MIN_TITLE
        /\ result.fn = "headlines" =>
              \A i \in 1..Len(result.value) : Len(result.value[i].title) > MIN_DEDUP

\* C13, amended: every article get_all_news_cached returns has a title of more
\* than 2 characters after stripping, and of more than 5 characters unless
\* the Chinese-locale Google News adapter fetched it; every headline
\* returned has a title of more than 5 characters
C13_TitleLengths ==
    result.status = "ok" =>
        /\ result.fn = "news" =>
              \A i \in 1..Len(result.value) :
                  /\ Len(Strip(result.value[i].title)) > MIN_DEDUP
                  /\ \/ result.value[i].origin = "google_zh"
                     \/ Len(result.value[i].title) > MIN_TITLE
        /\ result.fn = "headlines" =>
              \A i \in 1..Len(result.value) : Len(result.value[i].title) > MIN_TITLE

\* a returned pool with a three-character title from the Chinese-locale
\* Google News adapter
C13_Witness ==
    /\ result.fn = "news"
    /\ result.status = "ok"
    /\ \E i \in 1..Len(result.value) :
          /\ result.value[i].origin = "google_zh"
          /\ Len(result.value[i].title) = MIN_TITLE_ZH + 1

\* a complete finalized sequence: deduplicated, sorted newest first, truncated
Finalized(seq) ==
    /\ Len(seq) <= NEWS_CAP
    /\ \A i, j \in 1..Len(seq) :
          i < j => /\ NewsKey(seq[i].title) # NewsKey(seq[j].title)
                   /\ Comparable(seq[i], seq[j])
                   /\ seq[i].published.t >= seq[j].published.t

StructuredApis == {"yahoo", "finnhub"}

ScrapedFeeds == {"google", "sina", "yahoo_zh"}

\* C15: when, for one ticker, an article of Finnhub or Yahoo and an article
\* of a scraped adapter (Google News RSS, Sina, the Yahoo HK page) have the
\* same dedup key, the result of get_all_news_cached keeps the Finnhub or
\* Yahoo article, not the scraped one
C15_StructuredApisWin ==
    (NewsComputed /\ result.status = "ok") =>
        \A i, j \in 1..Len(all_news) :
            ( /\ all_news[i].tk = all_news[j].tk
              /\ all_news[i].origin \in StructuredApis
              /\ all_news[j].origin \in ScrapedFeeds
              /\ NewsKeyValid(all_news[i].title)
              /\ NewsKey(all_news[i].title) = NewsKey(all_news[j].title) )
            => \A r \in 1..Len(result.value) : result.value[r] # all_news[j]

\* the items of a provider answer an adapter of get_all_news_cached looks at
Examined(adapter, items) ==
    Prefix(items,
           CASE adapter = "yahoo" -> YAHOO_CAP
             [] adapter = "finnhub" -> FINNHUB_CAP
             [] adapter = "newsapi" -> NEWSAPI_CAP
             [] adapter = "alphavantage" -> AV_CAP
             [] adapter = "wallstreetcn" -> WSCN_CAP
             [] adapter = "yahoo_zh" -> ZHYAHOO_CAP
             [] adapter = "sina" -> SINA_LINKS
             [] OTHER -> GOOGLE_CAP)

\* C16: in every adapter of the news pipeline, an item whose timestamp cannot
\* be converted (its title being admissible) is still emitted, with published
\* set to the current time, and the adapter's call does not fail: its other
\* items are emitted too
C16_BadTimestampKeepsRecord ==
    (result.fn = "news" /\ pc # "idle") =>
        \A e \in 1..Len(netlog) :
            LET page == Examined(netlog[e].adapter, netlog[e].served)
            IN \A i \in 1..Len(page) :
                ( /\ netlog[e].requests > 0
                  /\ page[i].ts.kind = "bad"
                  /\ ~page[i].bad
                  /\ Len(page[i].title) > MIN_TITLE )
                => /\ ~netlog[e].raised
                   /\ netlog[e].got >= Cardinality({j \in 1..Len(page) :
                                          /\ j # i
                                          /\ page[j].ts.kind = "ok"
                                          /\ Len(page[j].title) > MIN_TITLE}) + 1
                   /\ \E a \in 1..Len(all_news) :
                        /\ all_news[a].title = page[i].title
                        /\ all_news[a].origin = netlog[e].adapter
                        /\ all_news[a].tk = netlog[e].tk
                        /\ all_news[a].published = Naive(now)

\* the title an adapter gives the article it makes of an item that has one
OwnTitle(adapter, item) ==
    IF adapter \in {"sina", "yahoo_zh"} THEN Strip(item.title) ELSE item.title

Untitled(item) == item.title = <<>> \/ item.title = NO_TITLE

\* what fetch_yahoo_news puts in the place of a missing title
Substitute(item) ==
    IF item.headline # Absent THEN item.headline
    ELSE IF item.summary # Absent THEN item.summary
    ELSE UNTITLED

\* the article is made of an item of the adapter's call that has a title,
\* under that title
MadeOfTitledItem(a) ==
    \E e \in 1..Len(netlog) :
        /\ netlog[e].adapter = a.origin
        /\ netlog[e].tk = a.tk
        /\ \E i \in 1..Len(netlog[e].served) :
             /\ ~Untitled(netlog[e].served[i])
             /\ a.title = OwnTitle(a.origin, netlog[e].served[i])

InNewsSweep == result.fn = "news" /\ pc # "idle"

\* C17 (as stated): in every adapter, an item with no title or an empty title
\* produces no article: every article of the pool is made of an item that
\* has a title, under that title
C17_UntitledDroppedEverywhere ==
    InNewsSweep => \A a \in 1..Len(all_news) : MadeOfTitledItem(all_news[a])

\* C17 (amended): in every adapter except fetch_yahoo_news an item with no
\* title or an empty title produces no article; fetch_yahoo_news puts the
\* item's headline, else its summary, else "Untitled Article" in the place
\* of the title and emits the item when that text is longer than 5 characters
C17_UntitledDroppedExceptYahoo ==
    InNewsSweep =>
        /\ \A a \in 1..Len(all_news) :
             all_news[a].origin # "yahoo" => MadeOfTitledItem(all_news[a])
        /\ \A e \in 1..Len(netlog) :
             LET page == Examined(netlog[e].adapter, netlog[e].served)
             IN (netlog[e].adapter = "yahoo" /\ ~netlog[e].raised) =>
                  /\ \A i \in 1..Len(page) :
                       (Untitled(page[i]) /\ Len(Substitute(page[i])) > MIN_TITLE)
                       => \E a \in 1..Len(all_news) :
                            /\ all_news[a].origin = "yahoo"
                            /\ all_news[a].tk = netlog[e].tk
                            /\ all_news[a].title = Substitute(page[i])
                  /\ netlog[e].got =
                       Cardinality({i \in 1..Len(page) :
                           \/ ~Untitled(page[i]) /\ Len(page[i].title) > MIN_TITLE
                           \/ Untitled(page[i]) /\ Len(Substitute(page[i])) > MIN_TITLE})

\* fetch_yahoo_news served an item without title, headline and summary and
\* made an article of it, next to the articles of its titled items
C17_Witness ==
    /\ InNewsSweep
    /\ \E e \in 1..Len(netlog) :
         /\ netlog[e].adapter = "yahoo"
         /\ \E i \in 1..Len(netlog[e].served) :
              /\ Untitled(netlog[e].served[i])
              /\ \E a \in 1..Len(all_news) :
                   /\ all_news[a].origin = "yahoo"
                   /\ all_news[a].tk = netlog[e].tk
                   /\ all_news[a].title = Substitute(netlog[e].served[i])
    /\ \E a \in 1..Len(all_news) :
         all_news[a].origin # "yahoo" /\ MadeOfTitledItem(all_news[a])

\* C18: every article an adapter returns, and hence every article of a
\* sequence returned by get_all_news_cached or get_market_headlines_cached,
\* has a summary of at most 200 characters
C18_SummaryBound ==
    /\ \A a \in 1..Len(all_news) : Len(all_news[a].summary) <= SUMMARY_CAP
    /\ result.status = "ok" =>
         \A r \in 1..Len(result.value) : Len(result.value[r].summary) <= SUMMARY_CAP

GreaterChinaMarkers == {".HK", ".SS", ".SZ"}

\* the loop of get_all_news_cached is past the Chinese bundle of ticker k
PastChineseBundle(k) ==
    \/ k < ti
    \/ k = ti /\ pc \in {"google", "finnhub", "newsapi", "alphavantage", "next"}
    \/ pc \in {"dedup", "sort"}
    \/ pc = "idle" /\ ~result.hit

\* C20: the Chinese-language adapters are invoked for a ticker if and only if
\* the ticker carries a Greater-China marker (.HK, .SS, .SZ); for every other
\* ticker none of them is invoked and no article of theirs enters the pool on
\* that ticker's behalf
C20_ChineseBundleGating ==
    result.fn = "news" =>
        \A k \in 1..Len(tickers) : \A adapter \in ChineseBundle :
            /\ Invoked(adapter, k) => tickers[k].suffix \in GreaterChinaMarkers
            /\ (tickers[k].suffix \in GreaterChinaMarkers /\ PastChineseBundle(k))
               => Invoked(adapter, k)
            /\ tickers[k].suffix \notin GreaterChinaMarkers =>
                 \A a \in 1..Len(all_news) :
                     ~(all_news[a].origin = adapter /\ all_news[a].tk = k)

\* a finished sweep over a US ticker and a Hong Kong ticker, or over a
\* Shenzhen ticker, in which the bundle contributed articles
C20_Witness ==
    /\ result.fn = "news"
    /\ pc = "dedup"
    /\ \/ tickers = <<AAPL, HK0700>>
       \/ tickers = <<SZ000001>>
    /\ \A adapter \in ChineseBundle :
         \E a \in 1..Len(all_news) : all_news[a].origin = adapter

----------------------------------------------------------------------------
(* Properties of fetch_market_headlines, the cached empty result, the      *)
(* truncation and the purity of get_ticker_news                            *)

HeadlinesComputed ==
    /\ pc = "idle"
    /\ result.fn = "headlines"
    /\ ~result.hit
    /\ result.status = "ok"

\* C21: in fetch_market_headlines a source whose processing raises, at the
\* request or at an item part-way through the payload, contributes no
\* headline to the result, and the headlines of the other sources are in the
\* result (up to dedup and the cap of 30)
C21_FailedSourceContributesNothing ==
    HeadlinesComputed =>
        \A e \in 1..Len(netlog) :
            IF netlog[e].raised
            THEN /\ netlog[e].got = 0
                 /\ \A r \in 1..Len(result.value) :
                      result.value[r].origin # netlog[e].adapter
            ELSE \/ Len(result.value) = HEADLINES_CAP
                 \/ \A a \in 1..Len(all_news) :
                      (all_news[a].origin = netlog[e].adapter
                       /\ HeadlineKeyValid(all_news[a].title))
                      => \E r \in 1..Len(result.value) :
                           HeadlineKey(result.value[r].title)
                               = HeadlineKey(all_news[a].title)

\* C22: in every adapter, an item for which the provider omits the
\* timestamp is emitted with published equal to the time of the fetch,
\* never a fixed date
C22_PublishedDefaultsToFetchTime ==
    InNewsSweep =>
        \A e \in 1..Len(netlog) :
            LET page == Examined(netlog[e].adapter, netlog[e].served)
            IN \A i \in 1..Len(page) : \A a \in 1..Len(all_news) :
                ( /\ page[i].ts.kind = "none"
                  /\ ~Untitled(page[i])
                  /\ all_news[a].origin = netlog[e].adapter
                  /\ all_news[a].tk = netlog[e].tk
                  /\ all_news[a].title = OwnTitle(netlog[e].adapter, page[i]) )
                => all_news[a].published = Naive(now)

\* C23: when every adapter failed or returned nothing during a miss of
\* get_all_news_cached, the empty sequence is returned and stored like any
\* other result, and a call with the same tickers less than 1800 s later
\* returns the empty sequence without invoking an adapter, whatever the
\* providers would serve by then
C23_EmptyResultCached ==
    [][/\ (pc = "sort" /\ pc' = "idle" /\ all_news = <<>>) =>
             /\ result' = Returned("news", "ok", <<>>, FALSE)
             /\ cache'[CacheKey(tickers)] = [value |-> <<>>, stored |-> now]
       /\ \A tl \in TickerLists :
             (CallsNews(tl) /\ Young(tl, TTL_NEWS) /\ computed[tl].value = <<>>)
             => /\ ServedFromCache(tl)
                /\ result'.value = <<>>
                /\ all_news' = <<>>]_vars

\* a call answered with the empty sequence stored while the providers were
\* down, although they serve articles again
C23_Witness ==
    /\ pc = "idle"
    /\ result = Returned("news", "ok", <<>>, TRUE)
    /\ cache[CacheKey(tickers)].value = <<>>
    /\ cache[CacheKey(tickers)].stored >= 0
    /\ now > cache[CacheKey(tickers)].stored
    /\ pagesize > 0

\* the positions of the deduplicated pool whose article is in the result
KeptOf(pool, value) ==
    {i \in 1..Len(pool) : \E r \in 1..Len(value) : value[r] = pool[i]}

PlaceIn(value, a) == CHOOSE r \in 1..Len(value) : value[r] = a

\* the result is the pool cut to cap articles, none left out being newer
\* than one kept, ties going to the articles earlier in fetch order, which
\* keep their relative order
KeepsNewest(pool, value, cap) ==
    LET kept == KeptOf(pool, value)
    IN /\ Len(value) = cap
       /\ Cardinality(kept) = cap
       /\ \A i \in (1..Len(pool)) \ kept : \A r \in 1..Len(value) :
            pool[i].published.t <= value[r].published.t
       /\ \A i, j \in 1..Len(pool) :
            (i < j /\ pool[i].published.t = pool[j].published.t /\ j \in kept)
            => /\ i \in kept
               /\ PlaceIn(value, pool[i]) < PlaceIn(value, pool[j])

\* C24: whenever the deduplicated pool of get_all_news_cached has more than
\* 50 articles (30 for fetch_market_headlines), every article left out of
\* the result has published <= that of every article in the result, and
\* among articles of equal published the ones earlier in fetch order are
\* kept, in their relative fetch order
C24_TruncationKeepsNewest ==
    (pc = "idle" /\ ~result.hit /\ result.status = "ok") =>
        /\ (result.fn = "news" /\ Len(unique_news) > NEWS_CAP)
           => KeepsNewest(unique_news, result.value, NEWS_CAP)
        /\ (result.fn = "headlines" /\ Len(unique_news) > HEADLINES_CAP)
           => KeepsNewest(unique_news, result.value, HEADLINES_CAP)

\* a pool of more than 50 articles cut to 50: an article left out is as old
\* as one that is kept, and another kept one was fetched after it
C24_Witness ==
    /\ pc = "idle"
    /\ result.fn = "news"
    /\ result.status = "ok"
    /\ ~result.hit
    /\ Len(unique_news) > NEWS_CAP
    /\ LET kept == KeptOf(unique_news, result.value)
       IN \E i \in (1..Len(unique_news)) \ kept :
            /\ \E j \in kept :
                 unique_news[j].published.t = unique_news[i].published.t
            /\ \E j \in kept : j > i

\* kept is made of elements of pool at increasing positions
IsSubsequence(kept, pool) ==
    \E f \in [1..Len(kept) -> 1..Len(pool)] :
        /\ \A k \in 1..Len(kept) : kept[k] = pool[f[k]]
        /\ \A k \in 1..(Len(kept) - 1) : f[k] < f[k + 1]

\* C25: get_ticker_news is a pure filter: a call makes no fetch, touches no
\* cache entry, leaves the pool and its articles as they were, and returns
\* an order-preserving subsequence of the pool, each article of the pool at
\* most once; a second call with the same arguments returns the same
C25_PureFilter ==
    [][(pc \in {"filter", "filtered"} /\ pc' = "filtered") =>
          /\ UNCHANGED <<all_news, unique_news, cache, hcache, computed, netlog,
                         budget, callsLeft, tickers>>
          /\ result'.fn = "ticker_news"
          /\ IsSubsequence(result'.value, all_news)
          /\ pc = "filtered" => result'.value = result.value]_vars

\* a filtered pool of two articles of which the second alone is returned,
\* the pool and the cache entry that holds it being as before the call
C25_Witness ==
    /\ pc = "filtered"
    /\ Len(all_news) = 2
    /\ all_news[1] # all_news[2]
    /\ result.value = <<all_news[2]>>
    /\ cache[CacheKey(tickers)].value = all_news

====
